---- MODULE Spec2Model ----
(***************************************************************************)
(* A model of the data-access layer of the GILab home page backend         *)
(* (src/server/crud.py) over the input shapes of src/server/schemas.py.    *)
(*                                                                         *)
(* A table is a function from generated row ids to rows; a row is a record *)
(* of column values.  A request payload is the dict produced by            *)
(* `.dict(exclude_unset=True)`: a function whose DOMAIN is the set of      *)
(* fields the caller supplied.  Strings are tuples of one-character        *)
(* strings so that lower() and startswith() are computed, not assumed.     *)
(***************************************************************************)
EXTENDS Integers, Sequences, FiniteSets, TLC

VARIABLES
    users,          \* table User:         id -> row
    publications,   \* table Publication:  id -> row
    authors,        \* table Author:       id -> row
    news,           \* table News:         id -> row
    members,        \* table Member:       id -> row
    areas,          \* table ResearchArea: id -> row
    labInfo,        \* table LabInfo:      id -> row
    nextId,         \* number of row ids generated so far
    pc,             \* per session: the point reached inside a multi-step call
    local,          \* per session: the call's local variables and unflushed rows
    ret             \* the value the last completed call returned

vars == <<users, publications, authors, news, members, areas, labInfo,
          nextId, pc, local, ret>>

tables == <<users, publications, authors, news, members, areas, labInfo>>

(***************************************************************************)
(* Bounds                                                                  *)
(***************************************************************************)
\* rows ever created in one behaviour (ids are generated, never reused)
MaxRows == 2

\* longest authors[] list handed to create_publication
MaxAuthors == 2

(***************************************************************************)
(* Values                                                                  *)
(***************************************************************************)
\* Python None / SQL NULL in a string column
None == <<"<None>">>

Sessions == {"s1", "s2"}

\* ids a caller may pass: every id that can be generated, and 0, which never is
IdArgs == 0 .. MaxRows

EmptyTable == [i \in {} |-> None]

UpperCase == <<"A","B","C","D","E","F","G","H","I","J","K","L","M",
               "N","O","P","Q","R","S","T","U","V","W","X","Y","Z">>

LowerCase == <<"a","b","c","d","e","f","g","h","i","j","k","l","m",
               "n","o","p","q","r","s","t","u","v","w","x","y","z">>

\* str.lower() on one character
LowerChar(c) ==
    IF \E i \in 1 .. Len(UpperCase) : UpperCase[i] = c
    THEN LowerCase[CHOOSE i \in 1 .. Len(UpperCase) : UpperCase[i] = c]
    ELSE c

\* the characters that occur in the strings of the model
Chars ==
    {UpperCase[i] : i \in 1 .. Len(UpperCase)}
        \cup {LowerCase[i] : i \in 1 .. Len(LowerCase)} \cup {" ", "."}

\* str.lower() on one character, tabulated
LowerMap == [c \in Chars |-> LowerChar(c)]

\* str.lower()
Lower(s) == [i \in 1 .. Len(s) |-> LowerMap[s[i]]]

\* str.startswith(prefix)
StartsWith(s, prefix) ==
    /\ Len(s) >= Len(prefix)
    /\ SubSeq(s, 1, Len(prefix)) = prefix

\* `x or ""`
OrEmpty(x) == IF x = None THEN <<>> ELSE x

\* position of a character in the collation used by ORDER BY
CharRank ==
    [c \in Chars |->
        IF \E i \in 1 .. Len(UpperCase) : UpperCase[i] = c
        THEN CHOOSE i \in 1 .. Len(UpperCase) : UpperCase[i] = c
        ELSE IF \E i \in 1 .. Len(LowerCase) : LowerCase[i] = c
        THEN Len(UpperCase) + (CHOOSE i \in 1 .. Len(LowerCase) : LowerCase[i] = c)
        ELSE 0]

\* a <= b in the lexicographic order of ORDER BY ... ASC on a string column
RECURSIVE StrLeq(_, _)
StrLeq(a, b) ==
    IF a = <<>> THEN TRUE
    ELSE IF b = <<>> THEN FALSE
    ELSE IF CharRank[Head(a)] < CharRank[Head(b)] THEN TRUE
    ELSE IF CharRank[Head(a)] > CharRank[Head(b)] THEN FALSE
    ELSE StrLeq(Tail(a), Tail(b))

\* setattr(row, key, value) for every key of the payload
ApplyPatch(row, patch) ==
    [f \in DOMAIN row |-> IF f \in DOMAIN patch THEN patch[f] ELSE row[f]]

\* Model(**payload): supplied columns from the payload, the others from the
\* column defaults
NewRow(defaults, payload) == ApplyPatch(defaults, payload)

\* the table without the row `id`
Without(table, id) == [i \in DOMAIN table \ {id} |-> table[i]]

\* the table with row `id` set to `row`
With(table, id, row) ==
    [i \in DOMAIN table \cup {id} |-> IF i = id THEN row ELSE table[i]]

(***************************************************************************)
(* Return values                                                           *)
(***************************************************************************)
RetNone == [kind |-> "none"]

RetBool(b) == [kind |-> "bool", val |-> b]

RetRow(id, row) == [kind |-> "row", id |-> id, row |-> row]

RetRaise == [kind |-> "raise"]

(***************************************************************************)
(* Initial state: empty tables, no call made                               *)
(***************************************************************************)
Init ==
    /\ users = EmptyTable
    /\ publications = EmptyTable
    /\ authors = EmptyTable
    /\ news = EmptyTable
    /\ members = EmptyTable
    /\ areas = EmptyTable
    /\ labInfo = EmptyTable
    /\ nextId = 0
    /\ pc = [s \in Sessions |-> "idle"]
    /\ local = [s \in Sessions |-> <<>>]
    /\ ret = RetNone

(***************************************************************************)
(* Member CRUD                                                             *)
(***************************************************************************)
\* column defaults of Member for the columns the payload leaves unset
MemberDefaults ==
    [name |-> None, degree |-> None, status |-> <<"c","u","r","r","e","n","t">>]

\* create_member
create_member(member) ==
    /\ nextId < MaxRows
    /\ nextId' = nextId + 1
    /\ members' = With(members, nextId + 1, NewRow(MemberDefaults, member))
    /\ ret' = RetRow(nextId + 1, members'[nextId + 1])
    /\ UNCHANGED <<users, publications, authors, news, areas, labInfo, pc, local>>

\* update_member that rebuilds the row from the payload alone
update_member_replace(member_id, member) ==
    /\ IF member_id \notin DOMAIN members
       THEN /\ ret' = RetNone
            /\ UNCHANGED members
       ELSE LET db_member == NewRow(MemberDefaults, member)
            IN  /\ ret' = RetRow(member_id, db_member)
                /\ members' = With(members, member_id, db_member)
    /\ UNCHANGED <<users, publications, authors, news, areas, labInfo, nextId, pc, local>>

\* update_member
update_member(member_id, member) ==
    /\ IF member_id \notin DOMAIN members
       THEN /\ ret' = RetNone
            /\ UNCHANGED members
       ELSE LET db_member == ApplyPatch(members[member_id], member)
            IN  /\ ret' = RetRow(member_id, db_member)
                /\ members' = With(members, member_id, db_member)
    /\ UNCHANGED <<users, publications, authors, news, areas, labInfo, nextId, pc, local>>

\* delete_member that reports success without removing the row
delete_member_keeps(member_id) ==
    /\ IF member_id \notin DOMAIN members
       THEN ret' = RetBool(FALSE)
       ELSE ret' = RetBool(TRUE)
    /\ UNCHANGED <<tables, nextId, pc, local>>

\* delete_member
delete_member(member_id) ==
    /\ IF member_id \notin DOMAIN members
       THEN /\ ret' = RetBool(FALSE)
            /\ UNCHANGED members
       ELSE /\ members' = Without(members, member_id)
            /\ ret' = RetBool(TRUE)
    /\ UNCHANGED <<users, publications, authors, news, areas, labInfo, nextId, pc, local>>

Buckets == {"masters", "bachelors", "phd", "other", "alumni"}

\* the five keys of `grouped` as the lowercased degree is compared with them
BucketKey(deg) ==
    CASE deg = <<"m","a","s","t","e","r","s">> -> "masters"
      [] deg = <<"b","a","c","h","e","l","o","r","s">> -> "bachelors"
      [] deg = <<"p","h","d">> -> "phd"
      [] deg = <<"o","t","h","e","r">> -> "other"
      [] deg = <<"a","l","u","m","n","i">> -> "alumni"
      [] OTHER -> "none"

\* BucketOf with the status test moved after the degree tests
BucketOf_DegreeFirst(m) ==
    LET deg == Lower(OrEmpty(m.degree)) IN
    IF BucketKey(deg) # "none" THEN BucketKey(deg)
    ELSE IF deg \in {<<"p","h","d">>, <<"p","h",".","d">>,
                     <<"d","o","c","t","o","r">>} THEN "phd"
    ELSE IF StartsWith(deg, <<"m","a","s","t","e","r">>) THEN "masters"
    ELSE IF StartsWith(deg, <<"b","a","c","h","e","l","o","r">>) THEN "bachelors"
    ELSE IF Lower(OrEmpty(m.status)) = <<"a","l","u","m","n","i">> THEN "alumni"
    ELSE "other"

\* the bucket the loop body of get_members_by_degree_level appends `m` to
BucketOf(m) ==
    IF Lower(OrEmpty(m.status)) = <<"a","l","u","m","n","i">> THEN "alumni"
    ELSE LET deg == Lower(OrEmpty(m.degree)) IN
         IF BucketKey(deg) # "none" THEN BucketKey(deg)
         ELSE IF deg \in {<<"p","h","d">>, <<"p","h",".","d">>,
                          <<"d","o","c","t","o","r">>} THEN "phd"
         ELSE IF StartsWith(deg, <<"m","a","s","t","e","r">>) THEN "masters"
         ELSE IF StartsWith(deg, <<"b","a","c","h","e","l","o","r">>) THEN "bachelors"
         ELSE "other"

\* the results `ORDER BY name ASC` may return: every listing of the member ids
\* in which names ascend (rows with equal names in either order)
OrderedByName ==
    { q \in [1 .. Cardinality(DOMAIN members) -> DOMAIN members] :
        /\ \A i, j \in DOMAIN q : i # j => q[i] # q[j]
        /\ \A i, j \in DOMAIN q :
              i < j => StrLeq(OrEmpty(members[q[i]].name), OrEmpty(members[q[j]].name)) }

\* the ids of `q` whose bucket in `bucket` is `b`, in the order of `q`
RECURSIVE Grouping(_, _, _)
Grouping(q, bucket, b) ==
    IF q = <<>> THEN <<>>
    ELSE IF bucket[Head(q)] = b
         THEN <<Head(q)>> \o Grouping(Tail(q), bucket, b)
         ELSE Grouping(Tail(q), bucket, b)

\* get_members_by_degree_level
get_members_by_degree_level ==
    /\ \E q \in OrderedByName :
          LET bucket == [id \in DOMAIN members |-> BucketOf(members[id])]
          IN  ret' = [kind |-> "grouped",
                      val |-> [b \in Buckets |-> Grouping(q, bucket, b)]]
    /\ UNCHANGED <<tables, nextId, pc, local>>

(***************************************************************************)
(* Member payloads                                                         *)
(***************************************************************************)
Amy == <<"A","m","y">>

Bo == <<"B","o">>

Cy == <<"C","y">>

Current == <<"c","u","r","r","e","n","t">>

\* MemberCreate payloads: name and degree are required, status is optional
MemberCreates ==
    { [name |-> Amy, degree |-> <<"P","h","D">>, status |-> Current],
      [name |-> Bo, degree |-> <<"M","a","s","t","e","r"," ","o","f"," ","S","c","i","e","n","c","e">>, status |-> <<"a","l","u","m","n","i">>],
      [name |-> Cy, degree |-> <<"U","n","d","e","r","g","r","a","d","u","a","t","e">>, status |-> Current],
      [name |-> Amy, degree |-> <<"M","a","s","t","e","r","s">>],
      [name |-> Bo, degree |-> <<"b","a","c","h","e","l","o","r","s">>],
      [name |-> Cy, degree |-> <<"O","t","h","e","r">>],
      [name |-> Amy, degree |-> <<"a","l","u","m","n","i">>],
      [name |-> Bo, degree |-> <<"P","h",".","D">>, status |-> <<"A","l","u","m","n","i">>],
      [name |-> Cy, degree |-> <<"D","o","c","t","o","r">>],
      [name |-> Amy, degree |-> <<"B","a","c","h","e","l","o","r"," ","o","f"," ","A","r","t","s">>],
      [name |-> Bo, degree |-> <<>>],
      [name |-> Cy, degree |-> <<"M","S">>, status |-> <<"A","L","U","M","N","I">>],
      [name |-> Amy, degree |-> <<"D","o","c","t","o","r","a","l">>],
      [name |-> Bo, degree |-> <<"m","a","s","t","e","r">>, status |-> <<"a","l","u","m","n","u","s">>] }

\* MemberUpdate payloads: every field is optional and may be null
MemberUpdates ==
    { <<>>,
      [degree |-> None, status |-> None] }

NextMembers ==
    \/ \E member \in MemberCreates : create_member(member)
    \/ \E member_id \in IdArgs, member \in MemberUpdates : update_member(member_id, member)
    \/ \E member_id \in IdArgs : delete_member(member_id)
    \/ get_members_by_degree_level

SpecMembers == Init /\ [][NextMembers]_vars

(***************************************************************************)
(* Publication and Author CRUD                                             *)
(***************************************************************************)
\* rows ever created in one behaviour of the publication specifications
\* (publications and authors draw their ids from the same generator)
MaxPubRows == 3

PubIdArgs == 0 .. MaxPubRows

\* column defaults of Publication for the columns the payload leaves unset
PublicationDefaults ==
    [title |-> None, year |-> 0, journal |-> None, displayOrder |-> 0, authorId |-> 0]

\* column defaults of Author for the columns the payload leaves unset
AuthorDefaults ==
    [name |-> None, homepage |-> None, displayOrder |-> 0, publicationId |-> 0]

\* PopOrder that ignores the caller's default and falls back to 0
PopOrder_ZeroDefault(payload, default) ==
    [f \in (DOMAIN payload \ {"order"}) \cup {"displayOrder"} |->
        IF f = "displayOrder"
        THEN (IF "order" \in DOMAIN payload THEN payload["order"] ELSE 0)
        ELSE payload[f]]

\* payload.pop("order", default); payload["displayOrder"] = <the popped value>
PopOrder(payload, default) ==
    [f \in (DOMAIN payload \ {"order"}) \cup {"displayOrder"} |->
        IF f = "displayOrder"
        THEN (IF "order" \in DOMAIN payload THEN payload["order"] ELSE default)
        ELSE payload[f]]

\* the payload with keyword argument `key` added
WithKey(payload, key, value) ==
    [f \in DOMAIN payload \cup {key} |-> IF f = key THEN value ELSE payload[f]]

\* a storage engine that does not enforce references
ForeignKeyHolds_Unenforced(ref, table) == TRUE

\* a referential constraint of the storage engine: the reference resolves to a
\* row of the referenced table
ForeignKeyHolds(ref, table) == ref \in DOMAIN table

\* ON DELETE CASCADE from Publication to Author: the authors left when
\* publication `publication_id` goes
CascadeAuthors(publication_id) ==
    [a \in {x \in DOMAIN authors : authors[x].publicationId # publication_id} |-> authors[a]]

\* the rows a session has added and not yet committed, as a table
PendingTable(added) ==
    [a \in {added[i].id : i \in DOMAIN added} |->
        added[CHOOSE i \in DOMAIN added : added[i].id = a].row]

\* the table with the rows of `more` inserted
Inserted(table, more) ==
    [i \in DOMAIN table \cup DOMAIN more |-> IF i \in DOMAIN more THEN more[i] ELSE table[i]]

\* cp_flush that commits the publication where the code only flushes it
cp_flush_commits(s, publication, author_id, authors_data) ==
    /\ pc[s] = "idle"
    /\ nextId < MaxPubRows
    /\ nextId' = nextId + 1
    /\ pc' = [pc EXCEPT ![s] = "cp_authors"]
    /\ local' = [local EXCEPT ![s] =
          [publication |-> publication,
           authors_data |-> authors_data,
           id |-> nextId + 1,
           db_publication |->
               NewRow(PublicationDefaults,
                      WithKey(PopOrder(publication, 0), "authorId", author_id)),
           idx |-> 0,
           db_authors |-> <<>>]]
    /\ publications' = With(publications, nextId + 1, local'[s].db_publication)
    /\ UNCHANGED <<users, authors, news, members, areas, labInfo, ret>>

\* create_publication, lines 63-69: the payload is tidied, the publication is
\* added to the session and flushed, which generates its id; the row is not
\* committed
cp_flush(s, publication, author_id, authors_data) ==
    /\ pc[s] = "idle"
    /\ nextId < MaxPubRows
    /\ nextId' = nextId + 1
    /\ pc' = [pc EXCEPT ![s] = "cp_authors"]
    /\ local' = [local EXCEPT ![s] =
          [publication |-> publication,
           authors_data |-> authors_data,
           id |-> nextId + 1,
           db_publication |->
               NewRow(PublicationDefaults,
                      WithKey(PopOrder(publication, 0), "authorId", author_id)),
           idx |-> 0,
           db_authors |-> <<>>]]
    /\ UNCHANGED <<tables, ret>>

\* create_publication, lines 72-81: one iteration of the loop over authors_data
cp_add_author(s) ==
    /\ pc[s] = "cp_authors"
    /\ local[s].idx < Len(local[s].authors_data)
    /\ nextId < MaxPubRows
    /\ nextId' = nextId + 1
    /\ LET idx == local[s].idx
           a_payload == PopOrder(local[s].authors_data[idx + 1], idx)
           db_author == NewRow(AuthorDefaults,
                               WithKey(a_payload, "publicationId", local[s].id))
       IN  local' = [local EXCEPT ![s].idx = idx + 1,
                                  ![s].db_authors =
                                      Append(@, [id |-> nextId + 1, row |-> db_author])]
    /\ UNCHANGED <<tables, pc, ret>>

\* create_publication, lines 83-85: the loop is over; the commit writes the
\* publication and every added author in one transaction
cp_commit(s) ==
    /\ pc[s] = "cp_authors"
    /\ local[s].idx = Len(local[s].authors_data)
    /\ publications' = With(publications, local[s].id, local[s].db_publication)
    /\ authors' = Inserted(authors, PendingTable(local[s].db_authors))
    /\ pc' = [pc EXCEPT ![s] = "idle"]
    /\ local' = [local EXCEPT ![s] = <<>>]
    /\ ret' = RetRow(local[s].id, local[s].db_publication)
    /\ UNCHANGED <<users, news, members, areas, labInfo, nextId>>

\* create_publication raises between the flush and the end of the commit (an
\* author row cannot be built or written): the error leaves the function, the
\* request's session is closed and its uncommitted rows are rolled back
cp_fail(s) ==
    /\ pc[s] = "cp_authors"
    /\ pc' = [pc EXCEPT ![s] = "idle"]
    /\ local' = [local EXCEPT ![s] = <<>>]
    /\ ret' = RetRaise
    /\ UNCHANGED <<tables, nextId>>

\* update_publication
update_publication(publication_id, publication) ==
    /\ IF publication_id \notin DOMAIN publications
       THEN /\ ret' = RetNone
            /\ UNCHANGED publications
       ELSE LET updates == IF "order" \in DOMAIN publication
                           THEN PopOrder(publication, 0)
                           ELSE publication
                db_publication == ApplyPatch(publications[publication_id], updates)
            IN  /\ ret' = RetRow(publication_id, db_publication)
                /\ publications' = With(publications, publication_id, db_publication)
    /\ UNCHANGED <<users, authors, news, members, areas, labInfo, nextId, pc, local>>

\* update_publication_order
update_publication_order(publication_id, order) ==
    /\ IF publication_id \notin DOMAIN publications
       THEN /\ ret' = RetNone
            /\ UNCHANGED publications
       ELSE LET db_publication ==
                    [publications[publication_id] EXCEPT !.displayOrder = order]
            IN  /\ ret' = RetRow(publication_id, db_publication)
                /\ publications' = With(publications, publication_id, db_publication)
    /\ UNCHANGED <<users, authors, news, members, areas, labInfo, nextId, pc, local>>

\* delete_publication as crud.py alone performs it, the storage engine
\* leaving the Author rows of the deleted publication in place
delete_publication_orphans(publication_id) ==
    /\ IF publication_id \notin DOMAIN publications
       THEN /\ ret' = RetBool(FALSE)
            /\ UNCHANGED <<publications, authors>>
       ELSE /\ publications' = Without(publications, publication_id)
            /\ UNCHANGED authors
            /\ ret' = RetBool(TRUE)
    /\ UNCHANGED <<users, news, members, areas, labInfo, nextId, pc, local>>

\* delete_publication
delete_publication(publication_id) ==
    /\ IF publication_id \notin DOMAIN publications
       THEN /\ ret' = RetBool(FALSE)
            /\ UNCHANGED <<publications, authors>>
       ELSE /\ publications' = Without(publications, publication_id)
            /\ authors' = CascadeAuthors(publication_id)
            /\ ret' = RetBool(TRUE)
    /\ UNCHANGED <<users, news, members, areas, labInfo, nextId, pc, local>>

\* create_author
create_author(author, publication_id) ==
    /\ nextId < MaxPubRows
    /\ IF ForeignKeyHolds(publication_id, publications)
       THEN /\ nextId' = nextId + 1
            /\ authors' = With(authors, nextId + 1,
                               [AuthorDefaults EXCEPT !.name = author.name,
                                                      !.homepage = author.homepage,
                                                      !.publicationId = publication_id])
            /\ ret' = RetRow(nextId + 1, authors'[nextId + 1])
       ELSE /\ ret' = RetRaise
            /\ UNCHANGED <<authors, nextId>>
    /\ UNCHANGED <<users, publications, news, members, areas, labInfo, pc, local>>

(***************************************************************************)
(* Publication and author payloads                                         *)
(***************************************************************************)
\* PublicationCreate payloads: title and year are required, journal and order
\* are optional
PublicationCreates ==
    { [title |-> <<"T">>, year |-> 2024],
      [title |-> <<"U">>, year |-> 2025, order |-> 2] }

\* AuthorCreate as the schema layer builds it: homepage is None when unset
AuthorObject(payload) ==
    [name |-> payload.name,
     homepage |-> IF "homepage" \in DOMAIN payload THEN payload.homepage ELSE None]

\* AuthorCreate payloads: name is required, homepage and order are optional
AuthorCreates ==
    { [name |-> <<"A">>],
      [name |-> <<"B">>, order |-> 5],
      [name |-> <<"A">>, homepage |-> <<"h">>, order |-> 0] }

\* the authors[] lists of at most MaxAuthors entries
AuthorLists ==
    UNION { [1 .. n -> AuthorCreates] : n \in 0 .. MaxAuthors }

\* the authenticated user's id, handed in by the router
AuthorIdArgs == {7}

\* values of update_publication_order's `order`
OrderArgs == {1}

\* the session of the request that runs create_publication; the single-commit
\* operations of other requests run in sessions of their own
Writer == "s1"

NextPub ==
    \/ \E publication \in PublicationCreates,
          author_id \in AuthorIdArgs, authors_data \in AuthorLists :
          cp_flush(Writer, publication, author_id, authors_data)
    \/ cp_add_author(Writer)
    \/ cp_commit(Writer)
    \/ cp_fail(Writer)
    \/ \E publication_id \in PubIdArgs : delete_publication(publication_id)
    \/ \E author \in AuthorCreates, publication_id \in PubIdArgs :
          create_author(AuthorObject(author), publication_id)

SpecPub == Init /\ [][NextPub]_vars

(***************************************************************************)
(* User CRUD                                                               *)
(***************************************************************************)
\* the unique constraint on User.email
EmailTaken(email) == \E u \in DOMAIN users : users[u].email = email

\* create_user
create_user(user, hashed_password) ==
    /\ nextId < MaxRows
    /\ IF EmailTaken(user.email)
       THEN /\ ret' = RetRaise
            /\ UNCHANGED <<users, nextId>>
       ELSE /\ nextId' = nextId + 1
            /\ users' = With(users, nextId + 1,
                             [email |-> user.email,
                              hashed_password |-> hashed_password,
                              firstName |-> user.firstName,
                              lastName |-> user.lastName,
                              isApproved |-> FALSE,
                              isAdmin |-> FALSE])
            /\ ret' = RetRow(nextId + 1, users'[nextId + 1])
    /\ UNCHANGED <<publications, authors, news, members, areas, labInfo, pc, local>>

\* approve_user without the `if db_user` test: the attribute write on None raises
approve_user_unguarded(user_id) ==
    /\ IF user_id \in DOMAIN users
       THEN /\ users' = With(users, user_id, [users[user_id] EXCEPT !.isApproved = TRUE])
            /\ ret' = RetRow(user_id, users'[user_id])
       ELSE /\ ret' = RetRaise
            /\ UNCHANGED users
    /\ UNCHANGED <<publications, authors, news, members, areas, labInfo, nextId, pc, local>>

\* approve_user that flips the flag instead of setting it
approve_user_toggle(user_id) ==
    /\ IF user_id \in DOMAIN users
       THEN /\ users' = With(users, user_id,
                             [users[user_id] EXCEPT !.isApproved = ~users[user_id].isApproved])
            /\ ret' = RetRow(user_id, users'[user_id])
       ELSE /\ ret' = RetNone
            /\ UNCHANGED users
    /\ UNCHANGED <<publications, authors, news, members, areas, labInfo, nextId, pc, local>>

\* approve_user
approve_user(user_id) ==
    /\ IF user_id \in DOMAIN users
       THEN /\ users' = With(users, user_id, [users[user_id] EXCEPT !.isApproved = TRUE])
            /\ ret' = RetRow(user_id, users'[user_id])
       ELSE /\ ret' = RetNone
            /\ UNCHANGED users
    /\ UNCHANGED <<publications, authors, news, members, areas, labInfo, nextId, pc, local>>

(***************************************************************************)
(* News CRUD                                                               *)
(***************************************************************************)
\* column defaults of News for the columns the payload leaves unset
NewsDefaults == [title |-> None, content |-> None, summary |-> None, authorId |-> 0]

\* get_news_by_id
get_news_by_id(news_id) ==
    /\ ret' = IF news_id \in DOMAIN news THEN RetRow(news_id, news[news_id]) ELSE RetNone
    /\ UNCHANGED <<tables, nextId, pc, local>>

\* create_news
create_news(payload, author_id) ==
    /\ nextId < MaxRows
    /\ nextId' = nextId + 1
    /\ news' = With(news, nextId + 1,
                    NewRow(NewsDefaults, WithKey(payload, "authorId", author_id)))
    /\ ret' = RetRow(nextId + 1, news'[nextId + 1])
    /\ UNCHANGED <<users, publications, authors, members, areas, labInfo, pc, local>>

\* update_news
update_news(news_id, payload) ==
    /\ IF news_id \notin DOMAIN news
       THEN /\ ret' = RetNone
            /\ UNCHANGED news
       ELSE LET db_news == ApplyPatch(news[news_id], payload)
            IN  /\ ret' = RetRow(news_id, db_news)
                /\ news' = With(news, news_id, db_news)
    /\ UNCHANGED <<users, publications, authors, members, areas, labInfo, nextId, pc, local>>

\* delete_news
delete_news(news_id) ==
    /\ IF news_id \notin DOMAIN news
       THEN /\ ret' = RetBool(FALSE)
            /\ UNCHANGED news
       ELSE /\ news' = Without(news, news_id)
            /\ ret' = RetBool(TRUE)
    /\ UNCHANGED <<users, publications, authors, members, areas, labInfo, nextId, pc, local>>

(***************************************************************************)
(* Research Area CRUD                                                      *)
(***************************************************************************)
\* NULL in a reference column
NullId == -1

\* column defaults of ResearchArea for the columns the payload leaves unset
AreaDefaults == [name |-> None, parentId |-> NullId, order |-> 0, isActive |-> TRUE]

\* the referential constraint of ResearchArea.parentId on a row about to be
\* written: the reference is NULL or resolves to a row of `table`
ParentResolves(row, table) ==
    row.parentId = NullId \/ ForeignKeyHolds(row.parentId, table)

\* the areas that reach an area of `set` through parent references
RECURSIVE Descendants(_)
Descendants(set) ==
    LET more == {a \in DOMAIN areas : areas[a].parentId \in set} \ set
    IN  IF more = {} THEN set ELSE Descendants(set \cup more)

\* what the storage engine makes of the rows that reference a deleted area, so
\* that no reference is left dangling: it clears their parentId, or it deletes
\* them and their descendants with it
AfterAreaDelete(area_id) ==
    { [a \in DOMAIN areas \ {area_id} |->
          IF areas[a].parentId = area_id
          THEN [areas[a] EXCEPT !.parentId = NullId]
          ELSE areas[a]],
      [a \in DOMAIN areas \ Descendants({area_id}) |-> areas[a]] }

\* get_research_area_by_id
get_research_area_by_id(area_id) ==
    /\ ret' = IF area_id \in DOMAIN areas THEN RetRow(area_id, areas[area_id]) ELSE RetNone
    /\ UNCHANGED <<tables, nextId, pc, local>>

\* create_research_area
create_research_area(area) ==
    /\ nextId < MaxRows
    /\ LET db_area == NewRow(AreaDefaults, area)
       IN  IF ParentResolves(db_area, areas)
           THEN /\ nextId' = nextId + 1
                /\ areas' = With(areas, nextId + 1, db_area)
                /\ ret' = RetRow(nextId + 1, db_area)
           ELSE /\ ret' = RetRaise
                /\ UNCHANGED <<areas, nextId>>
    /\ UNCHANGED <<users, publications, authors, news, members, labInfo, pc, local>>

\* update_research_area
update_research_area(area_id, area) ==
    /\ IF area_id \notin DOMAIN areas
       THEN /\ ret' = RetNone
            /\ UNCHANGED areas
       ELSE LET db_area == ApplyPatch(areas[area_id], area)
            IN  IF ParentResolves(db_area, areas)
                THEN /\ ret' = RetRow(area_id, db_area)
                     /\ areas' = With(areas, area_id, db_area)
                ELSE /\ ret' = RetRaise
                     /\ UNCHANGED areas
    /\ UNCHANGED <<users, publications, authors, news, members, labInfo, nextId, pc, local>>

\* delete_research_area
delete_research_area(area_id) ==
    /\ IF area_id \notin DOMAIN areas
       THEN /\ ret' = RetBool(FALSE)
            /\ UNCHANGED areas
       ELSE /\ areas' \in AfterAreaDelete(area_id)
            /\ ret' = RetBool(TRUE)
    /\ UNCHANGED <<users, publications, authors, news, members, labInfo, nextId, pc, local>>

(***************************************************************************)
(* Payloads of the CRUD specification                                      *)
(***************************************************************************)
\* UserCreate payloads
\* id arguments of the CRUD specification: every id the generator can hand out
CrudIdArgs == 1 .. MaxRows

UserCreates ==
    { [email |-> <<"a">>, firstName |-> <<"F">>, lastName |-> <<"L">>, password |-> <<"p">>],
      [email |-> <<"b">>, firstName |-> <<"G">>, lastName |-> <<"L">>, password |-> <<"q">>] }

\* the password hash the auth layer hands to create_user
Hashed(password) == <<"#">> \o password

\* NewsCreate payloads: title and content are required, summary is optional
NewsCreates ==
    { [title |-> <<"N">>, content |-> <<"c">>],
      [title |-> <<"M">>, content |-> <<"c">>, summary |-> <<"s">>] }

\* MemberCreate payloads of the CRUD specification
CrudMemberCreates ==
    { [name |-> Amy, degree |-> <<"P","h","D">>, status |-> Current],
      [name |-> Bo, degree |-> <<"M","S">>] }

\* MemberUpdate payloads of the CRUD specification: every field is optional
CrudMemberUpdates ==
    { <<>>,
      [status |-> <<"a","l","u","m","n","i">>] }

\* ResearchAreaCreate payloads: name is required, the rest is optional; a
\* parentId names the first or the second row created, or is null
AreaCreates ==
    {[name |-> <<"R">>]}
        \cup {[name |-> <<"S">>, parentId |-> p] : p \in {1, 2, NullId}}

\* authors[] lists of the CRUD specification
CrudAuthorLists == {<<>>, <<[name |-> <<"A">>]>>}

\* tables that may hold rows at the same time in the CRUD specification
MaxTablesInUse == 1

\* the tables that hold rows, or are about to (a publication being created)
TablesInUse ==
    {name \in {"users", "publications", "news", "members", "areas"} :
        CASE name = "users" -> users # EmptyTable
          [] name = "publications" ->
                publications # EmptyTable \/ \E s \in Sessions : pc[s] # "idle"
          [] name = "news" -> news # EmptyTable
          [] name = "members" -> members # EmptyTable
          [] name = "areas" -> areas # EmptyTable}

\* a create on table `name` is within the bound on tables in use
MayPopulate(name) ==
    name \in TablesInUse \/ Cardinality(TablesInUse) < MaxTablesInUse

NextCrud ==
    \/ \E user \in UserCreates :
          MayPopulate("users") /\ create_user(user, Hashed(user.password))
    \/ \E user_id \in CrudIdArgs : approve_user(user_id)
    \/ \E publication \in PublicationCreates,
          author_id \in AuthorIdArgs, authors_data \in CrudAuthorLists :
          /\ MayPopulate("publications")
          /\ nextId + Len(authors_data) < MaxRows
          /\ cp_flush(Writer, publication, author_id, authors_data)
    \/ cp_add_author(Writer)
    \/ cp_commit(Writer)
    \/ cp_fail(Writer)
    \/ \E publication_id \in CrudIdArgs, publication \in PublicationCreates :
          update_publication(publication_id, publication)
    \/ \E publication_id \in CrudIdArgs, order \in OrderArgs :
          update_publication_order(publication_id, order)
    \/ \E publication_id \in CrudIdArgs : delete_publication(publication_id)
    \/ \E news_id \in CrudIdArgs : get_news_by_id(news_id)
    \/ \E payload \in NewsCreates, author_id \in AuthorIdArgs :
          MayPopulate("news") /\ create_news(payload, author_id)
    \/ \E news_id \in CrudIdArgs, payload \in NewsCreates : update_news(news_id, payload)
    \/ \E news_id \in CrudIdArgs : delete_news(news_id)
    \/ \E member \in CrudMemberCreates : MayPopulate("members") /\ create_member(member)
    \/ \E member_id \in CrudIdArgs, member \in CrudMemberUpdates : update_member(member_id, member)
    \/ \E member_id \in CrudIdArgs : delete_member(member_id)
    \/ \E area_id \in CrudIdArgs : get_research_area_by_id(area_id)
    \/ \E area \in AreaCreates : MayPopulate("areas") /\ create_research_area(area)
    \/ \E area_id \in CrudIdArgs, area \in AreaCreates : update_research_area(area_id, area)
    \/ \E area_id \in CrudIdArgs : delete_research_area(area_id)

SpecCrud == Init /\ [][NextCrud]_vars

(***************************************************************************)
(* Lab Info CRUD                                                           *)
(***************************************************************************)
\* the sentinel key of the LabInfo row
LabSettings == "lab_settings"

\* column defaults of LabInfo for the columns the payload leaves unset
LabDefaults == [labName |-> None, piPhone |-> None, description |-> None]

\* query(LabInfo).filter(LabInfo.id == "lab_settings").first() that filters
\* on a key no row carries
LabLookup_WrongKey(table) == None

\* query(LabInfo).filter(LabInfo.id == "lab_settings").first(): the row, or None
LabLookup(table) ==
    IF LabSettings \in DOMAIN table THEN table[LabSettings] ELSE None

\* the commit of create_or_update_lab_info that inserts its row under a key
\* of its own instead of the sentinel
LabWrite_OwnKey(table, db_lab_info, lab_info) ==
    IF db_lab_info # None
    THEN [table |-> With(table, LabSettings, ApplyPatch(table[LabSettings], lab_info)),
          ret |-> RetRow(LabSettings, ApplyPatch(table[LabSettings], lab_info))]
    ELSE [table |-> With(table, "generated", NewRow(LabDefaults, lab_info)),
          ret |-> RetRow("generated", NewRow(LabDefaults, lab_info))]

\* lines 291-299 of create_or_update_lab_info on the committed `table`, given
\* the row `db_lab_info` the lookup returned (None: no row): the table after
\* the commit and the value returned.  A found row is updated in the columns
\* whose payload value differs from the value loaded; a row that was not found
\* is inserted under the sentinel key, which the primary key rejects when
\* another session has inserted it since.
LabWrite(table, db_lab_info, lab_info) ==
    IF db_lab_info # None
    THEN LET dirty == {f \in DOMAIN lab_info : lab_info[f] # db_lab_info[f]}
             row == [f \in DOMAIN table[LabSettings] |->
                        IF f \in dirty THEN lab_info[f] ELSE table[LabSettings][f]]
         IN  [table |-> With(table, LabSettings, row), ret |-> RetRow(LabSettings, row)]
    ELSE IF LabSettings \in DOMAIN table
         THEN [table |-> table, ret |-> RetRaise]
         ELSE LET row == NewRow(LabDefaults, lab_info)
              IN  [table |-> With(table, LabSettings, row), ret |-> RetRow(LabSettings, row)]

\* create_or_update_lab_info run without another session in between
LabCall(table, lab_info) == LabWrite(table, LabLookup(table), lab_info)

\* get_lab_info
get_lab_info ==
    /\ ret' = IF LabLookup(labInfo) = None THEN RetNone
              ELSE RetRow(LabSettings, LabLookup(labInfo))
    /\ UNCHANGED <<tables, nextId, pc, local>>

\* create_or_update_lab_info, line 290: the lookup of the sentinel row
lab_query(s, lab_info) ==
    /\ pc[s] = "idle"
    /\ pc' = [pc EXCEPT ![s] = "lab_write"]
    /\ local' = [local EXCEPT ![s] =
          [lab_info |-> lab_info, db_lab_info |-> LabLookup(labInfo)]]
    /\ UNCHANGED <<tables, nextId, ret>>

\* create_or_update_lab_info, lines 291-299: setattr or add, commit, refresh
lab_commit(s) ==
    /\ pc[s] = "lab_write"
    /\ LET done == LabWrite(labInfo, local[s].db_lab_info, local[s].lab_info)
       IN  /\ labInfo' = done.table
           /\ ret' = done.ret
    /\ pc' = [pc EXCEPT ![s] = "idle"]
    /\ local' = [local EXCEPT ![s] = <<>>]
    /\ UNCHANGED <<users, publications, authors, news, members, areas, nextId>>

\* LabInfoCreate payloads: labName is required, piPhone and description are
\* optional and may be null
LabCreates ==
    { [labName |-> <<"G">>],
      [labName |-> <<"H">>, piPhone |-> <<"1">>],
      [labName |-> <<"G">>, piPhone |-> None, description |-> <<"d">>] }

NextLab ==
    \/ \E s \in Sessions, lab_info \in LabCreates : lab_query(s, lab_info)
    \/ \E s \in Sessions : lab_commit(s)
    \/ get_lab_info

SpecLab == Init /\ [][NextLab]_vars

(***************************************************************************)
(* Properties                                                              *)
(***************************************************************************)
\* number of positions of sequence `q` that hold `x`
Occurrences(q, x) == Cardinality({i \in DOMAIN q : q[i] = x})

\* a string with a value: neither null nor empty
C1_Text(x) == IF x = None THEN <<>> ELSE x

\* the six rules of the member classification, in order; each is a pair of
\* the rule's condition and its bucket
C1_Rules(m) ==
    LET st == Lower(C1_Text(m.status))
        dg == Lower(C1_Text(m.degree))
    IN << <<st = <<"a","l","u","m","n","i">>, "alumni">>,
          <<dg = <<"m","a","s","t","e","r","s">>, "masters">>,
          <<dg = <<"b","a","c","h","e","l","o","r","s">>, "bachelors">>,
          <<dg = <<"p","h","d">>, "phd">>,
          <<dg = <<"o","t","h","e","r">>, "other">>,
          <<dg = <<"a","l","u","m","n","i">>, "alumni">>,
          <<dg \in {<<"p","h","d">>, <<"p","h",".","d">>, <<"d","o","c","t","o","r">>}, "phd">>,
          <<StartsWith(dg, <<"m","a","s","t","e","r">>), "masters">>,
          <<StartsWith(dg, <<"b","a","c","h","e","l","o","r">>), "bachelors">>,
          <<TRUE, "other">> >>

\* the bucket of the first rule whose condition holds
C1_FirstMatch(m) ==
    LET rules == C1_Rules(m)
        first == CHOOSE i \in DOMAIN rules :
                    /\ rules[i][1]
                    /\ \A j \in 1 .. (i - 1) : ~rules[j][1]
    IN  rules[first][2]

\* C1: after get_members_by_degree_level every member occurs exactly once in
\* the bucket of the first matching rule (status alumni, exact bucket name,
\* phd spellings, prefix master, prefix bachelor, other) and in no other
\* bucket, and the buckets hold nothing but members.
C1_GroupedByFirstMatch ==
    ret.kind = "grouped" =>
        /\ DOMAIN ret.val = Buckets
        /\ \A id \in DOMAIN members : \A b \in Buckets :
              Occurrences(ret.val[b], id) = IF b = C1_FirstMatch(members[id]) THEN 1 ELSE 0
        /\ \A b \in Buckets : \A i \in DOMAIN ret.val[b] : ret.val[b][i] \in DOMAIN members

\* C1 witness: a grouping in which an alumni-status member with a master's
\* degree sits in "alumni" and a member with a null degree sits in "other"
C1_Witness ==
    /\ ret.kind = "grouped"
    /\ \E i, j \in DOMAIN members :
          /\ members[i].status = <<"a","l","u","m","n","i">>
          /\ members[i].degree = <<"M","a","s","t","e","r"," ","o","f"," ","S","c","i","e","n","c","e">>
          /\ Occurrences(ret.val["alumni"], i) = 1
          /\ members[j].degree = None
          /\ members[j].status = None
          /\ Occurrences(ret.val["other"], j) = 1

\* the displayOrder C2 states for a payload: its "order" if present, else `default`
C2_Order(payload, default) ==
    IF "order" \in DOMAIN payload THEN payload["order"] ELSE default

\* what C2 states of the step in which session `s` returns from
\* create_publication with a row
C2_Persisted(s) ==
    LET input == local[s]
        id == ret'.id
        n == Len(input.authors_data)
        created == DOMAIN authors' \ DOMAIN authors
    IN  /\ id \in DOMAIN publications'
        /\ publications'[id].displayOrder = C2_Order(input.publication, 0)
        /\ Cardinality(created) = n
        /\ \E f \in [1 .. n -> created] :
              /\ \A i, j \in 1 .. n : i # j => f[i] # f[j]
              /\ \A i \in 1 .. n :
                    /\ authors'[f[i]].name = input.authors_data[i].name
                    /\ authors'[f[i]].publicationId = id
                    /\ authors'[f[i]].displayOrder = C2_Order(input.authors_data[i], i - 1)

\* C2: when create_publication returns, the publication is stored with
\* displayOrder equal to the input's "order" (0 when absent), and exactly one
\* new Author row per entry of authors[] is stored, referencing the new
\* publication, with displayOrder equal to the entry's "order" if present and
\* its zero-based position otherwise.
C2_DisplayOrders ==
    [][\A s \in Sessions :
          (pc[s] = "cp_authors" /\ pc'[s] = "idle" /\ ret'.kind = "row")
              => C2_Persisted(s)]_vars

\* C2 witness: the publication {order: 2} with authors [{A}, {B, order: 5}]
\* has been created: displayOrder 2, author A at 0, author B at 5
C2_Witness ==
    /\ ret.kind = "row"
    /\ ret.id \in DOMAIN publications
    /\ publications[ret.id].displayOrder = 2
    /\ \E a, b \in DOMAIN authors :
          /\ authors[a].publicationId = ret.id
          /\ authors[a].name = <<"A">>
          /\ authors[a].displayOrder = 0
          /\ authors[b].publicationId = ret.id
          /\ authors[b].name = <<"B">>
          /\ authors[b].displayOrder = 5
          /\ {x \in DOMAIN authors : authors[x].publicationId = ret.id} = {a, b}

\* the committed Author rows that reference publication `p` in table `t`
C3_AuthorsOf(t, p) == {a \in DOMAIN t : t[a].publicationId = p}

\* C3: no committed state shows a publication of create_publication without
\* its authors or authors without it: while the call is in progress neither
\* the flushed publication nor any of its authors is in the committed tables,
\* and the step that ends the call either commits the publication with all
\* the authors passed in, or (when it fails) commits none of them.
C3_AllOrNothing ==
    [][\A s \in Sessions :
          /\ pc'[s] = "cp_authors" =>
                /\ local'[s].id \notin DOMAIN publications'
                /\ C3_AuthorsOf(authors', local'[s].id) = {}
                /\ \A i \in DOMAIN local'[s].db_authors :
                      local'[s].db_authors[i].id \notin DOMAIN authors'
          /\ (pc[s] = "cp_authors" /\ pc'[s] = "idle") =>
                LET p == local[s].id
                    added == {local[s].db_authors[i].id : i \in DOMAIN local[s].db_authors}
                IN  \/ /\ p \in DOMAIN publications'
                       /\ C3_AuthorsOf(authors', p) = added
                       /\ Cardinality(added) = Len(local[s].authors_data)
                    \/ /\ p \notin DOMAIN publications'
                       /\ C3_AuthorsOf(authors', p) = {}
                       /\ added \cap DOMAIN authors' = {}]_vars

\* C3 witness: create_publication has flushed its publication and added an
\* author while another publication is committed, and nothing of the call
\* in progress is in the committed tables
C3_Witness ==
    \E s \in Sessions :
        /\ pc[s] = "cp_authors"
        /\ local[s].idx >= 1
        /\ local[s].id \notin DOMAIN publications
        /\ C3_AuthorsOf(authors, local[s].id) = {}
        /\ publications # EmptyTable

\* what C4 states of one delete call on table `t` (`tp` after the call): an
\* existing row is removed and the call returns true, a missing id returns false
C4_Delete(t, tp, id, retp) ==
    /\ id \in DOMAIN t => (retp = RetBool(TRUE) /\ id \notin DOMAIN tp)
    /\ id \notin DOMAIN t => retp = RetBool(FALSE)

\* the steps that create a row of the four tables with a delete operation
C4_Create ==
    \/ \E s \in Sessions : cp_commit(s)
    \/ \E payload \in NewsCreates, author_id \in AuthorIdArgs : create_news(payload, author_id)
    \/ \E member \in CrudMemberCreates : create_member(member)
    \/ \E area \in AreaCreates : create_research_area(area)

\* C4: delete on an existing id returns true and leaves the row absent; delete
\* on an absent id returns false; and a row that is absent stays absent until
\* a create, so a second delete of the same id returns false.
C4_DeleteTwice ==
    [][/\ \A id \in CrudIdArgs :
            /\ delete_publication(id) => C4_Delete(publications, publications', id, ret')
            /\ delete_news(id) => C4_Delete(news, news', id, ret')
            /\ delete_member(id) => C4_Delete(members, members', id, ret')
            /\ delete_research_area(id) => C4_Delete(areas, areas', id, ret')
       /\ ~C4_Create =>
            /\ DOMAIN publications' \subseteq DOMAIN publications
            /\ DOMAIN news' \subseteq DOMAIN news
            /\ DOMAIN members' \subseteq DOMAIN members
            /\ DOMAIN areas' \subseteq DOMAIN areas]_vars

\* C4 witness: rows were created, every one of them has been deleted (the
\* tables are empty again), and the last call, a delete, returned false
C4_Witness ==
    /\ nextId = MaxRows
    /\ publications = EmptyTable /\ news = EmptyTable
    /\ members = EmptyTable /\ areas = EmptyTable /\ users = EmptyTable
    /\ \A s \in Sessions : pc[s] = "idle"
    /\ ret = RetBool(FALSE)

\* the columns a payload sets: "order" stands for displayOrder where `renamed`
C5_Set(payload, renamed, f) ==
    IF renamed /\ f = "displayOrder" THEN "order" \in DOMAIN payload
    ELSE f \in DOMAIN payload

\* the value a payload gives column `f`
C5_Value(payload, renamed, f) ==
    IF renamed /\ f = "displayOrder" THEN payload["order"] ELSE payload[f]

\* what C5 states of one update call on table `t` (`tp` after the call) that
\* finds its row: the columns the payload sets take its values, every other
\* column and every other row is as before, and the row is returned
C5_Update(t, tp, id, payload, renamed, retp) ==
    id \in DOMAIN t =>
        /\ DOMAIN tp = DOMAIN t
        /\ \A j \in DOMAIN t \ {id} : tp[j] = t[j]
        /\ DOMAIN tp[id] = DOMAIN t[id]
        /\ \A f \in DOMAIN t[id] :
              tp[id][f] = IF C5_Set(payload, renamed, f)
                          THEN C5_Value(payload, renamed, f)
                          ELSE t[id][f]
        /\ retp = RetRow(id, tp[id])

C6_Same == UNCHANGED <<tables, nextId>>

\* a read-by-id, update or approve whose id resolves to no row
C6_MissNone ==
    \E id \in CrudIdArgs :
        \/ id \notin DOMAIN users /\ approve_user(id)
        \/ /\ id \notin DOMAIN publications
           /\ \/ \E payload \in PublicationCreates : update_publication(id, payload)
              \/ \E order \in OrderArgs : update_publication_order(id, order)
        \/ /\ id \notin DOMAIN news
           /\ \/ get_news_by_id(id)
              \/ \E payload \in NewsCreates : update_news(id, payload)
        \/ /\ id \notin DOMAIN members
           /\ \E payload \in CrudMemberUpdates : update_member(id, payload)
        \/ /\ id \notin DOMAIN areas
           /\ \/ get_research_area_by_id(id)
              \/ \E payload \in AreaCreates : update_research_area(id, payload)

\* a delete whose id resolves to no row
C6_MissDelete ==
    \E id \in CrudIdArgs :
        \/ id \notin DOMAIN publications /\ delete_publication(id)
        \/ id \notin DOMAIN news /\ delete_news(id)
        \/ id \notin DOMAIN members /\ delete_member(id)
        \/ id \notin DOMAIN areas /\ delete_research_area(id)

\* C6: a read-by-id, update, approve or delete with an id that resolves to no
\* row does not raise: read, update and approve return None, delete returns
\* false, and nothing stored changes.
C6_NotFound ==
    [][/\ (ret' = RetNone /\ C6_Same) \/ ~C6_MissNone
       /\ (ret' = RetBool(FALSE) /\ C6_Same) \/ ~C6_MissDelete]_vars

\* C6 witness: a user exists and the last call, made with an id that resolves
\* to no row, returned None
C6_Witness ==
    /\ users # EmptyTable
    /\ \A u \in DOMAIN users : ~users[u].isApproved
    /\ ret = RetNone

\* C9: a user is created unapproved and non-admin, an approved user stays
\* approved (and stays in the table) in every later state, and no user is
\* ever an admin.
C9_ApprovalIrreversible ==
    [][/\ \A u \in DOMAIN users' \ DOMAIN users :
            ~users'[u].isApproved /\ ~users'[u].isAdmin
       /\ \A u \in DOMAIN users :
            users[u].isApproved => (u \in DOMAIN users' /\ users'[u].isApproved)
       /\ \A u \in DOMAIN users' : ~users'[u].isAdmin]_vars

\* C9 witness: the last call returned a user who is approved while a second
\* user, created as well, is still pending
C9_Witness ==
    \E u, v \in DOMAIN users :
        /\ users[u].isApproved
        /\ ~users[v].isApproved
        /\ ret = RetRow(u, users[u])

C7_Singleton ==
    /\ Cardinality(DOMAIN labInfo) <= 1
    /\ \A id \in DOMAIN labInfo : id = "lab_settings"

\* C7 witness: two sessions both looked the sentinel row up while there was
\* none; one has committed its insert and the other is about to write
C7_Witness ==
    \E s, t \in Sessions :
        /\ s # t
        /\ pc[s] = "lab_write"
        /\ local[s].db_lab_info = None
        /\ pc[t] = "idle"
        /\ DOMAIN labInfo = {"lab_settings"}
        /\ ret.kind = "row"

\* C8: from every state, absent or present row, and for every input, calling
\* create_or_update_lab_info twice in a row leaves the LabInfo row as one call
\* leaves it, and both calls return that row.
C8_Idempotent ==
    \A lab_info \in LabCreates :
        LET once == LabCall(labInfo, lab_info)
            twice == LabCall(once.table, lab_info)
        IN  /\ once.ret.kind = "row"
            /\ once.ret.row = once.table["lab_settings"]
            /\ \A f \in DOMAIN lab_info : once.ret.row[f] = lab_info[f]
            /\ twice.table = once.table
            /\ twice.ret = once.ret

\* C8 witness: the row exists with a phone number, the last call returned it,
\* and a call with an input that leaves the phone number unset would keep it
C8_Witness ==
    /\ \A s \in Sessions : pc[s] = "idle"
    /\ DOMAIN labInfo = {"lab_settings"}
    /\ ret = RetRow("lab_settings", labInfo["lab_settings"])
    /\ labInfo["lab_settings"].piPhone = <<"1">>
    /\ labInfo["lab_settings"].labName = <<"G">>
    /\ LabCall(labInfo, [labName |-> <<"G">>]).table = labInfo

\* every committed Author row references a publication that exists
C11_Owned ==
    \A a \in DOMAIN authors :
        /\ "publicationId" \in DOMAIN authors[a]
        /\ authors[a].publicationId \in DOMAIN publications

\* what C11 states of a delete_publication call that finds its row: the
\* publication and all of its authors are gone, the authors of the other
\* publications are as before, and the call returns true
C11_DeleteStep ==
    \A id \in DOMAIN publications :
        delete_publication(id) =>
            /\ ret' = RetBool(TRUE)
            /\ id \notin DOMAIN publications'
            /\ C3_AuthorsOf(authors', id) = {}
            /\ DOMAIN authors' = DOMAIN authors \ C3_AuthorsOf(authors, id)
            /\ \A a \in DOMAIN authors' : authors'[a] = authors[a]

====
